---- MODULE Spec2Model ----
(***************************************************************************)
(* Model of scripts/plot.py: seven plotting helpers that drive pyplot's    *)
(* implicit "current figure" state machine.                                *)
(*                                                                         *)
(* The state is pyplot's list of open figures (the last one is the current *)
(* figure), plus a record of what the most recent call did.  Every helper  *)
(* is one atomic action (the program is single threaded, a call runs to    *)
(* its return or to its raise).                                            *)
(*                                                                         *)
(* Exceptions.  The code raises Python's KeyError / ValueError; the model  *)
(* names the outcome by its cause:                                         *)
(*   "MissingColumnError"  df[col] / seaborn on a column the frame lacks   *)
(*   "InvalidModeError"    the explicit raise ValueError of an else branch *)
(*   "LengthMismatchError" (no statement of the code raises it)            *)
(*                                                                         *)
(* Backend.  plt.show() is modelled as the blocking / inline backends do   *)
(* it: every open figure is displayed and then closed.                     *)
(***************************************************************************)
EXTENDS Integers, Sequences, FiniteSets, TLC

(* ------------------------------ bounds -------------------------------- *)
MaxCalls == 2
MaxSel == 2
MaxRegions == 2
NRows == 4

(* ------------------------------ datasets ------------------------------ *)
Columns == {"GHI", "DNI", "DHI", "Tamb", "Timestamp", "Cleaning", "WS", "WD"}

\* The four series plot_time_series draws, in the order it draws them.
SeriesColumns == <<"GHI", "DNI", "DHI", "Tamb">>

\* Wind directions in degrees; 450 is one full turn past 90.
WindDirs == <<0, 90, 225, 450, 315, 180>>

\* Row i of column c.  DHI is a constant column, DNI falls as GHI rises.
Cell(c, i) ==
    CASE c = "GHI" -> i
      [] c = "DNI" -> NRows - i
      [] c = "DHI" -> 1
      [] c = "Tamb" -> (i * i) % 4
      [] c = "Timestamp" -> i
      [] c = "Cleaning" -> i % 2
      [] c = "WS" -> i - 1
      [] c = "WD" -> WindDirs[((i - 1) % Len(WindDirs)) + 1]
      [] OTHER -> 0

\* df[c]: the values of a column.
ColumnData(c) == [i \in 1..NRows |-> Cell(c, i)]

\* A DataFrame is identified by the set of columns it has.
Full == Columns
Without(c) == Columns \ {c}

(* ------------------------- pyplot's figure state ---------------------- *)
\* One thing drawn on a figure.  data is a table of integer rows.
Item(kind, x, y, hue, data) ==
    [kind |-> kind, x |-> x, y |-> y, hue |-> hue, data |-> data]

\* The backend as a call sees it: the open figures (the last is current),
\* and what this call has created and shown so far.
Backend(open) == [figs |-> open, ncreated |-> 0, nshow |-> 0, shown |-> <<>>]

\* plt.figure(): a new empty figure becomes the current figure.
NewFigure(b, id) ==
    [b EXCEPT !.figs = Append(@, [owner |-> id, items |-> <<>>]),
              !.ncreated = @ + 1]

\* Any pyplot / seaborn drawing call: it draws on the current figure, and
\* makes one first if no figure is open (plt.gcf()).
Draw(b, id, item) ==
    LET c == IF b.figs = <<>> THEN NewFigure(b, id) ELSE b
    IN  [c EXCEPT !.figs[Len(c.figs)].items = Append(@, item)]

\* plt.show(): displays every open figure and closes it.
Show(b) ==
    [b EXCEPT !.shown = @ \o b.figs, !.figs = <<>>, !.nshow = @ + 1]

Ok(b) == [b |-> b, result |-> "ok"]
Raise(b, e) == [b |-> b, result |-> e]

(* ----------------------------- statistics ----------------------------- *)
RECURSIVE SumSeq(_)
SumSeq(s) == IF s = <<>> THEN 0 ELSE Head(s) + SumSeq(Tail(s))

RECURSIVE Gcd(_, _)
Gcd(a, b) == IF b = 0 THEN a ELSE Gcd(b, a % b)

Sign(n) == IF n > 0 THEN 1 ELSE IF n < 0 THEN -1 ELSE 0

\* n * (x[i] - mean(x)), kept in integers.
Dev(x) == [i \in 1..Len(x) |-> Len(x) * x[i] - SumSeq(x)]
Dot(x, y) == SumSeq([i \in 1..Len(x) |-> x[i] * y[i]])

\* A correlation coefficient r is the triple <<sign(r), p, q>> with
\* r^2 = p/q in lowest terms; NaN is what pandas gives for a zero divisor.
NaN == <<0, 0, 0>>
Unit == <<1, 1, 1>>

\* Mutant of Corr: the covariance is divided by the first column's sum of
\* squares alone (the regression slope instead of the correlation).
CorrBySlope(x, y) ==
    LET cov == Dot(Dev(x), Dev(y))
        ssx == Dot(Dev(x), Dev(x))
        ssy == Dot(Dev(y), Dev(y))
        g   == Gcd(cov * cov, ssx * ssx)
    IN  IF ssx * ssy = 0 THEN NaN
        ELSE <<Sign(cov), (cov * cov) \div g, (ssx * ssx) \div g>>

\* Pearson's r as pandas computes it: covariance over the root of the
\* product of the two sums of squared deviations, NaN if that is zero.
Corr(x, y) ==
    LET cov == Dot(Dev(x), Dev(y))
        ssx == Dot(Dev(x), Dev(x))
        ssy == Dot(Dev(y), Dev(y))
        g   == Gcd(cov * cov, ssx * ssy)
    IN  IF ssx * ssy = 0 THEN NaN
        ELSE <<Sign(cov), (cov * cov) \div g, (ssx * ssy) \div g>>

\* df[columns].corr() as a table: row (i-1)*k + j is <<i, j>> \o r(i, j).
CorrMatrix(columns) ==
    LET k == Len(columns)
    IN  [n \in 1..(k * k) |->
            LET i == ((n - 1) \div k) + 1
                j == ((n - 1) % k) + 1
            IN  <<i, j>> \o Corr(ColumnData(columns[i]), ColumnData(columns[j]))]

\* df[columns] raises KeyError when a selected column is absent.
HasAll(df, columns) == \A i \in 1..Len(columns) : columns[i] \in df

(* --------------------------- drawing helpers -------------------------- *)
\* The rows a line or histogram is drawn from: <<x, y, hue>> per row.
\* x = "index" is df.index (the row number), hue = "" is no hue.
Points(x, y, hue) ==
    [i \in 1..NRows |->
        << IF x = "index" THEN i ELSE Cell(x, i),
           Cell(y, i),
           IF hue = "" THEN 0 ELSE Cell(hue, i) >>]

\* sns.lineplot(data=df, x=.., y=.., hue=..): seaborn resolves the three
\* names against df first and raises before it touches any axes.
LinePlotOk(df, x, y, hue) ==
    /\ x = "index" \/ x \in df
    /\ y \in df
    /\ hue = "" \/ hue \in df

\* The decorations a plot gets after its data.
RECURSIVE Decorate(_, _, _)
Decorate(b, id, kinds) ==
    IF kinds = <<>> THEN b
    ELSE Decorate(Draw(b, id, Item(Head(kinds)[1], Head(kinds)[2], "", "", <<>>)),
                  id, Tail(kinds))

\* Successive sns.lineplot calls on the current figure, one per column;
\* the first column df lacks raises and the rest is never drawn.
RECURSIVE LinePlots(_, _, _, _, _, _)
LinePlots(b, id, df, x, ys, hue) ==
    IF ys = <<>> THEN Ok(b)
    ELSE IF ~LinePlotOk(df, x, Head(ys), hue) THEN Raise(b, "MissingColumnError")
    ELSE LinePlots(Draw(b, id, Item("line", x, Head(ys), hue, Points(x, Head(ys), hue))),
                   id, df, x, Tail(ys), hue)

\* sns.pairplot(df[columns], ...): PairGrid opens a figure of its own.
PairPlot(b, id, columns, kind) ==
    Draw(NewFigure(b, id), id,
         Item("pairgrid", kind, "", "",
              [i \in 1..Len(columns) |-> ColumnData(columns[i])]))

(* ------------------------------ the helpers --------------------------- *)
\* plot_time_series(df, title)
plot_time_series(b, id, df, title) ==
    LET fig   == NewFigure(b, id)
        lines == LinePlots(fig, id, df, "index", SeriesColumns, "")
    IN  IF lines.result # "ok" THEN lines
        ELSE Ok(Show(Decorate(lines.b, id,
                 << <<"title", title>>, <<"xlabel", "Time">>, <<"ylabel", "Values">>,
                    <<"legend", "">>, <<"grid", "">>, <<"autofmt_xdate", "">> >>)))

\* plot_cleaning_impact(df, sensor_columns, title)
plot_cleaning_impact(b, id, df, sensor_columns, title) ==
    LET fig   == NewFigure(b, id)
        lines == LinePlots(fig, id, df, "Timestamp", sensor_columns, "Cleaning")
    IN  IF lines.result # "ok" THEN lines
        ELSE Ok(Show(Decorate(lines.b, id,
                 << <<"xlabel", "Time">>, <<"ylabel", "Sensor Reading">>,
                    <<"title", title>>, <<"legend", "Cleaning Event">>,
                    <<"grid", "">>, <<"autofmt_xdate", "">> >>)))

\* Mutant of correlation_heatmap: the final else does not raise.
correlation_heatmap_no_else(b, id, df, columns, method, title) ==
    IF method = "heatmap" THEN
        IF ~HasAll(df, columns) THEN Raise(b, "MissingColumnError")
        ELSE LET corr == CorrMatrix(columns)
                 fig  == NewFigure(b, id)
                 heat == Draw(fig, id, Item("heatmap", "square", "", "", corr))
             IN  Ok(Show(Decorate(heat, id, << <<"title", title>> >>)))
    ELSE IF method = "pairplot" THEN
        IF ~HasAll(df, columns) THEN Raise(b, "MissingColumnError")
        ELSE Ok(Show(Decorate(PairPlot(b, id, columns, "corner"), id,
                              << <<"suptitle", title>> >>)))
    ELSE Ok(b)

\* Mutant of correlation_heatmap: the heatmap branch lacks plt.figure(), so
\* the heatmap lands on whatever figure is current.
correlation_heatmap_on_current_figure(b, id, df, columns, method, title) ==
    IF method = "heatmap" THEN
        IF ~HasAll(df, columns) THEN Raise(b, "MissingColumnError")
        ELSE LET corr == CorrMatrix(columns)
                 heat == Draw(b, id, Item("heatmap", "square", "", "", corr))
             IN  Ok(Show(Decorate(heat, id, << <<"title", title>> >>)))
    ELSE IF method = "pairplot" THEN
        IF ~HasAll(df, columns) THEN Raise(b, "MissingColumnError")
        ELSE Ok(Show(Decorate(PairPlot(b, id, columns, "corner"), id,
                              << <<"suptitle", title>> >>)))
    ELSE Raise(b, "InvalidModeError")

\* correlation_heatmap(df, columns, method, title)
correlation_heatmap(b, id, df, columns, method, title) ==
    IF method = "heatmap" THEN
        IF ~HasAll(df, columns) THEN Raise(b, "MissingColumnError")
        ELSE LET corr == CorrMatrix(columns)
                 fig  == NewFigure(b, id)
                 heat == Draw(fig, id, Item("heatmap", "square", "", "", corr))
             IN  Ok(Show(Decorate(heat, id, << <<"title", title>> >>)))
    ELSE IF method = "pairplot" THEN
        IF ~HasAll(df, columns) THEN Raise(b, "MissingColumnError")
        ELSE Ok(Show(Decorate(PairPlot(b, id, columns, "corner"), id,
                              << <<"suptitle", title>> >>)))
    ELSE Raise(b, "InvalidModeError")

\* scatter_matrix(df, columns, title)
scatter_matrix(b, id, df, columns, title) ==
    IF ~HasAll(df, columns) THEN Raise(b, "MissingColumnError")
    ELSE Ok(Show(Decorate(PairPlot(b, id, columns, "corner"), id,
                          << <<"suptitle", title>> >>)))

\* Mutant of PolarAxes: the two set_theta_ calls are missing.
PolarAxesDefault == <<1, 0, 1>>

\* The polar axes as the helper sets them up: <<direction, offset numerator,
\* offset denominator>>, the offset a fraction of pi.  set_theta_direction(-1)
\* and set_theta_offset(np.pi / 2.0) replace matplotlib's defaults <<1, 0, 1>>.
PolarAxes == <<-1, 1, 2>>

\* Where matplotlib's polar transform puts the angle theta (a fraction of pi)
\* on screen, in whole degrees clockwise from the top of the plot: the
\* mathematical angle is direction * theta + offset, counted counter-clockwise
\* from the right.
ScreenDeg(axes, theta) ==
    LET phi == (axes[1] * theta[1] * 180) \div theta[2] + (axes[2] * 180) \div axes[3]
    IN  (90 - phi) % 360

\* np.deg2rad(d) as a fraction of pi in lowest terms: d/180.
Deg2Rad(d) == LET g == Gcd(180, d) IN <<d \div g, 180 \div g>>

\* The colour data of the scatter: the call passes cmap but no c, so no
\* row carries a colour value (<<0, 0>> is "no value").
ScatterColour(ws_column, i) == <<0, 0>>

\* ax.scatter(wd_rad, df[ws_column], ...): row i is
\* <<theta numerator, theta denominator, radius, has colour, colour value>>.
ScatterRows(ws_column, wd_column) ==
    [i \in 1..NRows |->
        Deg2Rad(Cell(wd_column, i)) \o <<Cell(ws_column, i)>> \o ScatterColour(ws_column, i)]

\* plt.colorbar(scatter): the bar spans the mappable's colour data, and the
\* default norm 0..1 when the mappable has none.
ColorbarRange(rows) ==
    LET vals == {rows[i][5] : i \in {j \in 1..Len(rows) : rows[j][4] = 1}}
    IN  IF vals = {} THEN <<0, 1>>
        ELSE << CHOOSE lo \in vals : \A v \in vals : lo <= v,
                CHOOSE hi \in vals : \A v \in vals : hi >= v >>

\* plot_wind_polar(df, ws_column, wd_column, title)
plot_wind_polar(b, id, df, ws_column, wd_column, title) ==
    IF wd_column \notin df THEN Raise(b, "MissingColumnError")
    ELSE LET fig == NewFigure(b, id)
             ax  == Draw(fig, id, Item("polar", "", "", "",
                         << PolarAxes >>))
         IN  IF ws_column \notin df THEN Raise(ax, "MissingColumnError")
             ELSE LET rows == ScatterRows(ws_column, wd_column)
                      sc   == Draw(ax, id, Item("scatter", wd_column, ws_column, "viridis", rows))
                      cbar == Draw(sc, id, Item("colorbar", "", ws_column, "",
                                                << ColorbarRange(rows) >>))
                  IN  Ok(Show(Decorate(cbar, id, << <<"title", title>> >>)))

\* Mutant of temperature_analysis: plot_type is checked before the columns
\* are selected.
temperature_analysis_mode_first(b, id, df, columns, plot_type, title) ==
    IF plot_type \notin {"heatmap", "scatter"} THEN Raise(b, "InvalidModeError")
    ELSE IF ~HasAll(df, columns) THEN Raise(b, "MissingColumnError")
    ELSE IF plot_type = "heatmap" THEN
        Ok(Show(Decorate(Draw(NewFigure(b, id), id,
                              Item("heatmap", "", "", "", CorrMatrix(columns))),
                         id, << <<"title", "Correlation Heatmap of " \o title>> >>)))
    ELSE Ok(Show(Decorate(PairPlot(b, id, columns, "reg"), id,
                          << <<"suptitle", "Scatter Plot Matrix">> >>)))

\* temperature_analysis(df, columns, plot_type, title)
temperature_analysis(b, id, df, columns, plot_type, title) ==
    IF ~HasAll(df, columns) THEN Raise(b, "MissingColumnError")
    ELSE LET correlation_matrix == CorrMatrix(columns)
         IN  IF plot_type = "heatmap" THEN
                 LET fig  == NewFigure(b, id)
                     heat == Draw(fig, id, Item("heatmap", "", "", "", correlation_matrix))
                 IN  Ok(Show(Decorate(heat, id,
                             << <<"title", "Correlation Heatmap of " \o title>> >>)))
             ELSE IF plot_type = "scatter" THEN
                 Ok(Show(Decorate(PairPlot(b, id, columns, "reg"), id,
                         << <<"suptitle", "Scatter Plot Matrix">> >>)))
             ELSE Raise(b, "InvalidModeError")

\* The inner loop of plot_histograms: zip(dataframes, region_names) stops at
\* the shorter list; df[var] raises before histplot draws.
RECURSIVE HistPlots(_, _, _, _, _, _)
HistPlots(b, id, dataframes, region_names, var, bins) ==
    IF dataframes = <<>> \/ region_names = <<>> THEN Ok(b)
    ELSE IF var \notin Head(dataframes) THEN Raise(b, "MissingColumnError")
    ELSE HistPlots(Draw(b, id, Item("hist", var, "step", Head(region_names),
                                    << ColumnData(var), <<bins>> >>)),
                   id, Tail(dataframes), Tail(region_names), var, bins)

\* Mutant of plot_histograms: plt.show() sits after the loop over the
\* variables instead of inside it.
RECURSIVE plot_histograms_one_show(_, _, _, _, _, _)
plot_histograms_one_show(b, id, dataframes, variables, region_names, bins) ==
    IF variables = <<>> THEN Ok(Show(b))
    ELSE LET var   == Head(variables)
             fig   == NewFigure(b, id)
             hists == HistPlots(fig, id, dataframes, region_names, var, bins)
         IN  IF hists.result # "ok" THEN hists
             ELSE plot_histograms_one_show(
                      Decorate(hists.b, id,
                           << <<"title", "Histogram of " \o var>>, <<"xlabel", var>>,
                              <<"ylabel", "Frequency">>, <<"legend", "Region">>,
                              <<"grid", "">> >>),
                      id, dataframes, Tail(variables), region_names, bins)

\* plot_histograms(dataframes, variables, region_names, bins)
RECURSIVE plot_histograms(_, _, _, _, _, _)
plot_histograms(b, id, dataframes, variables, region_names, bins) ==
    IF variables = <<>> THEN Ok(b)
    ELSE LET var   == Head(variables)
             fig   == NewFigure(b, id)
             hists == HistPlots(fig, id, dataframes, region_names, var, bins)
         IN  IF hists.result # "ok" THEN hists
             ELSE plot_histograms(
                      Show(Decorate(hists.b, id,
                           << <<"title", "Histogram of " \o var>>, <<"xlabel", var>>,
                              <<"ylabel", "Frequency">>, <<"legend", "Region">>,
                              <<"grid", "">> >>)),
                      id, dataframes, Tail(variables), region_names, bins)

(* ------------------------------- inputs ------------------------------- *)
SeqsUpTo(S, n) == UNION {[1..k -> S] : k \in 0..n}

\* Column selectors, in any order and with repeats.  Sensor and histogram
\* selectors name a column a frame may lack (GHI) and one every frame has
\* (DHI); correlation selectors add a second varying column (Tamb) next to
\* the constant DHI.
SensorCols == {"GHI", "DHI"}
CorrCols == {"GHI", "DHI", "Tamb"}
Selectors(pool) == SeqsUpTo(pool, MaxSel)

\* The frames a helper is called with: the full one, and one for each
\* column the helper reads with that column dropped.
Frames(reads) == {Full} \cup {Without(c) : c \in reads}

Titles == {"Togo"}
Methods == {"heatmap", "pairplot", "pie"}
PlotTypes == {"heatmap", "scatter", "pie"}
DefaultBins == 30

RegionPool == <<"Benin", "SierraLeone", "Togo", "Ghana">>
RegionNames(n) == [i \in 1..n |-> RegionPool[((i - 1) % Len(RegionPool)) + 1]]

\* A call: the helper's name and its arguments.
NoCall == [fn |-> "none", dfs |-> <<>>, cols |-> <<>>, mode |-> "", regions |-> <<>>,
           title |-> ""]

\* Running a call on backend b; id numbers the figures the call creates.
Invoke(call, b, id) ==
    CASE call.fn = "plot_time_series" ->
            plot_time_series(b, id, call.dfs[1], call.title)
      [] call.fn = "plot_cleaning_impact" ->
            plot_cleaning_impact(b, id, call.dfs[1], call.cols, call.title)
      [] call.fn = "correlation_heatmap" ->
            correlation_heatmap(b, id, call.dfs[1], call.cols, call.mode, call.title)
      [] call.fn = "scatter_matrix" ->
            scatter_matrix(b, id, call.dfs[1], call.cols, call.title)
      [] call.fn = "plot_wind_polar" ->
            plot_wind_polar(b, id, call.dfs[1], call.cols[1], call.cols[2], call.title)
      [] call.fn = "temperature_analysis" ->
            temperature_analysis(b, id, call.dfs[1], call.cols, call.mode, call.title)
      [] call.fn = "plot_histograms" ->
            plot_histograms(b, id, call.dfs, call.cols, call.regions, DefaultBins)
      [] OTHER -> Ok(b)

(* -------------------------------- state ------------------------------- *)
VARIABLES
    figs,    \* pyplot's open figures, oldest first; the last one is current
    ncalls,  \* calls made so far; call number n owns the figures it creates
    last     \* the call that has just returned or raised, and what it did;
             \* fn = "none" while the caller is between two calls

vars == <<figs, ncalls, last>>

\* What a call did: the figures open when it began, how it ended, how many
\* figures it created, how often it showed, and the figures it showed.
\* again holds the artifact of the call before it when this call repeats it.
Outcome(call, before, r, again) ==
    [fn |-> call.fn, dfs |-> call.dfs, cols |-> call.cols, mode |-> call.mode,
     regions |-> call.regions, title |-> call.title,
     before |-> before,
     result |-> r.result, ncreated |-> r.b.ncreated, nshow |-> r.b.nshow,
     shown |-> r.b.shown, again |-> again]

\* The figures of fs that call number id created, and the others.
Own(fs, id) == SelectSeq(fs, LAMBDA f : f.owner = id)
Foreign(fs, id) == SelectSeq(fs, LAMBDA f : f.owner # id)
ItemsOf(fs) == [i \in 1..Len(fs) |-> fs[i].items]

\* What call number id produced: how it ended, and the content of the
\* figures it created, shown and still open.
Artifact(result, shown, open, id) ==
    [result |-> result, shown |-> ItemsOf(Own(shown, id)), open |-> ItemsOf(Own(open, id))]

Idle == Outcome(NoCall, <<>>, Ok(Backend(<<>>)), <<>>)

Init ==
    /\ figs = <<>>
    /\ ncalls = 0
    /\ last = Idle

\* The caller is between two calls and may make another.
CanCall == last = Idle /\ ncalls < MaxCalls

\* The call runs to its return or its raise, and pyplot keeps the figures
\* the call left open.
Call(call) ==
    /\ LET r == Invoke(call, Backend(figs), ncalls + 1)
       IN  /\ figs' = r.b.figs
           /\ last' = Outcome(call, figs, r, <<>>)
    /\ ncalls' = ncalls + 1

PlotTimeSeries ==
    /\ CanCall
    /\ \E df \in Frames({"GHI", "DNI", "DHI", "Tamb"}), title \in Titles :
        Call([NoCall EXCEPT !.fn = "plot_time_series", !.dfs = <<df>>, !.title = title])

PlotCleaningImpact ==
    /\ CanCall
    /\ \E df \in Frames({"Timestamp", "Cleaning", "GHI"}),
       sensor_columns \in Selectors(SensorCols), title \in Titles :
        Call([NoCall EXCEPT !.fn = "plot_cleaning_impact", !.dfs = <<df>>,
                            !.cols = sensor_columns, !.title = title])

CorrelationHeatmap ==
    /\ CanCall
    /\ \E df \in Frames({"GHI"}), columns \in Selectors(CorrCols) \ {<<>>},
       method \in Methods, title \in Titles :
        Call([NoCall EXCEPT !.fn = "correlation_heatmap", !.dfs = <<df>>,
                            !.cols = columns, !.mode = method, !.title = title])

ScatterMatrix ==
    /\ CanCall
    /\ \E df \in Frames({"GHI"}), columns \in Selectors(CorrCols) \ {<<>>}, title \in Titles :
        Call([NoCall EXCEPT !.fn = "scatter_matrix", !.dfs = <<df>>,
                            !.cols = columns, !.title = title])

PlotWindPolar ==
    /\ CanCall
    /\ \E df \in Frames({"WS", "WD"}), title \in Titles :
        Call([NoCall EXCEPT !.fn = "plot_wind_polar", !.dfs = <<df>>,
                            !.cols = <<"WS", "WD">>, !.title = title])

TemperatureAnalysis ==
    /\ CanCall
    /\ \E df \in Frames({"GHI"}), columns \in Selectors(CorrCols) \ {<<>>},
       plot_type \in PlotTypes, title \in Titles :
        Call([NoCall EXCEPT !.fn = "temperature_analysis", !.dfs = <<df>>,
                            !.cols = columns, !.mode = plot_type, !.title = title])

PlotHistograms ==
    /\ CanCall
    /\ \E dataframes \in SeqsUpTo(Frames({"GHI"}), MaxRegions),
       variables \in Selectors(SensorCols), n \in 0..MaxRegions :
        Call([NoCall EXCEPT !.fn = "plot_histograms", !.dfs = dataframes,
                            !.cols = variables, !.regions = RegionNames(n)])

\* The caller makes the call that has just finished once more, with the
\* same arguments.
Repeat ==
    /\ last # Idle
    /\ last.again = <<>>
    /\ ncalls < MaxCalls
    /\ LET r == Invoke(last, Backend(figs), ncalls + 1)
       IN  /\ figs' = r.b.figs
           /\ last' = Outcome(last, figs, r,
                              << Artifact(last.result, last.shown, figs, ncalls) >>)
    /\ ncalls' = ncalls + 1

\* Control is back with the caller.  The helpers return None and keep no
\* state of their own, so nothing of the finished call remains but the
\* figures pyplot still holds.
Return ==
    /\ last # Idle
    /\ last' = Idle
    /\ UNCHANGED <<figs, ncalls>>

Next ==
    \/ PlotTimeSeries
    \/ PlotCleaningImpact
    \/ CorrelationHeatmap
    \/ ScatterMatrix
    \/ PlotWindPolar
    \/ TemperatureAnalysis
    \/ PlotHistograms
    \/ Repeat
    \/ Return

Spec == Init /\ [][Next]_vars

(* ============================== properties ============================ *)
Called == last.fn # "none"
Range(seq) == {seq[i] : i \in 1..Len(seq)}
Min(a, b) == IF a <= b THEN a ELSE b

\* The last call drew nothing: it created no figure, showed nothing and
\* left the figures that were open as they were.
DrewNothing ==
    /\ last.ncreated = 0
    /\ last.nshow = 0
    /\ last.shown = <<>>
    /\ figs = last.before

\* The last call is on a figure of its own that has something drawn on it.
DrewOnOwnFigure ==
    \E f \in Range(Own(figs, ncalls)) \cup Range(Own(last.shown, ncalls)) : f.items # <<>>

ModeOk ==
    CASE last.fn = "correlation_heatmap" -> last.mode \in {"heatmap", "pairplot"}
      [] last.fn = "temperature_analysis" -> last.mode \in {"heatmap", "scatter"}
      [] OTHER -> TRUE

LengthsOk == last.fn = "plot_histograms" => Len(last.dfs) = Len(last.regions)

\* The columns the last call names: the fixed ones of its chart and the
\* selected ones.
NamedColumns ==
    CASE last.fn = "plot_time_series" -> Range(SeriesColumns)
      [] last.fn = "plot_cleaning_impact" -> {"Timestamp", "Cleaning"} \cup Range(last.cols)
      [] OTHER -> Range(last.cols)

\* Every frame of the last call has every column the call names.
ColumnsOk == \A df \in Range(last.dfs) : NamedColumns \subseteq df

\* The last call's inputs are valid.
Valid == Called /\ ModeOk /\ LengthsOk /\ ColumnsOk

\* The last call reads a column that a frame it reads it from lacks, and
\* has no other fault: the mode is recognized, the lists match, and the
\* loops that read the columns have something to run over.
LacksRequiredColumn ==
    /\ Called /\ ModeOk /\ LengthsOk /\ ~ColumnsOk
    /\ last.fn = "plot_cleaning_impact" => last.cols # <<>>

(* C1: a call on a dataset that lacks a column it requires raises
   MissingColumnError and draws nothing: it leaves no figure of its own
   with something drawn on it, and it shows no figure. *)
C1_MissingColumnDrawsNothing ==
    LacksRequiredColumn =>
        /\ last.result = "MissingColumnError"
        /\ ~DrewOnOwnFigure
        /\ last.nshow = 0

(* C2: plot_histograms with dataset and region-name lists of different
   lengths raises LengthMismatchError and draws nothing. *)
C2_LengthMismatchRaises ==
    (Called /\ ~LengthsOk) => (last.result = "LengthMismatchError" /\ DrewNothing)

(* C3, as stated: correlation_heatmap or temperature_analysis with an
   unrecognized mode raises InvalidModeError and draws nothing. *)
C3_InvalidModeRaises ==
    (Called /\ ~ModeOk) => (last.result = "InvalidModeError" /\ DrewNothing)

(* C3, amended: correlation_heatmap with an unrecognized method, and
   temperature_analysis with an unrecognized plot_type on a dataset that
   has every selected column, raise InvalidModeError; either helper with
   an unrecognized mode draws nothing. *)
C3_InvalidModeRaisesWhenColumnsExist ==
    (Called /\ ~ModeOk) =>
        /\ DrewNothing
        /\ (last.fn = "correlation_heatmap" \/ ColumnsOk) => last.result = "InvalidModeError"

C3_Witness ==
    /\ last.fn = "temperature_analysis" /\ last.mode = "pie" /\ ColumnsOk
    /\ last.result = "InvalidModeError"
    /\ last.before # <<>>

(* C4, as stated: on valid inputs every helper returns normally, creates
   exactly one figure and shows exactly once. *)
C4_ExactlyOneArtifact ==
    Valid => (last.result = "ok" /\ last.ncreated = 1 /\ last.nshow = 1)

(* C4, amended: on valid inputs every helper returns normally; the six
   single-chart helpers create exactly one figure and show exactly once,
   plot_histograms creates one figure and shows once per variable. *)
C4_OneArtifactPerChart ==
    Valid =>
        LET n == IF last.fn = "plot_histograms" THEN Len(last.cols) ELSE 1
        IN  /\ last.result = "ok"
            /\ last.ncreated = n
            /\ last.nshow = n
            /\ Len(Own(last.shown, ncalls)) = n

C4_Witness ==
    /\ Valid /\ last.fn = "plot_histograms" /\ Len(last.cols) = 2 /\ Len(last.dfs) = 2
    /\ last.ncreated = 2 /\ last.nshow = 2

(* C5: once a call has exited, pyplot holds no open figure, so no call
   shows a figure an earlier call left behind. *)
C5_NoFigureLeftOpen ==
    /\ figs = <<>>
    /\ Foreign(last.shown, ncalls) = <<>>

\* The k-th thing drawn on the figure the last call showed as its n-th own.
OwnShown(n) == Own(last.shown, ncalls)[n]
ItemOfKind(f, kind) == CHOOSE it \in Range(f.items) : it.kind = kind

WindOk == last.fn = "plot_wind_polar" /\ last.result = "ok"

(* C6: plot_wind_polar plots every row at radius = its speed and at the
   on-screen angle of its direction, measured clockwise from the top of
   the plot (0 at the top, 90 a quarter turn clockwise). *)
C6_DirectionClockwiseFromTop ==
    WindOk =>
        LET f    == OwnShown(1)
            axes == ItemOfKind(f, "polar").data[1]
            rows == ItemOfKind(f, "scatter").data
        IN  /\ Len(rows) = NRows
            /\ \A i \in 1..NRows :
                  /\ rows[i][3] = Cell(last.cols[1], i)
                  /\ ScreenDeg(axes, <<rows[i][1], rows[i][2]>>) = Cell(last.cols[2], i) % 360

C6_Witness ==
    /\ WindOk
    /\ \E i, j \in 1..NRows :
          /\ Cell("WD", i) = 0 /\ Cell("WD", j) = 90 /\ Cell("WS", j) > 0
          /\ ScreenDeg(ItemOfKind(OwnShown(1), "polar").data[1],
                       Deg2Rad(Cell("WD", j))) = 90

(* C7: plot_wind_polar colours every point by its row's wind speed, and the
   colour bar ranges over the wind speeds. *)
C7_ColouredBySpeed ==
    WindOk =>
        LET f      == OwnShown(1)
            rows   == ItemOfKind(f, "scatter").data
            speeds == {Cell(last.cols[1], i) : i \in 1..NRows}
        IN  /\ \A i \in 1..NRows : rows[i][4] = 1 /\ rows[i][5] = Cell(last.cols[1], i)
            /\ \A lo, hi \in speeds :
                  ((\A v \in speeds : lo <= v /\ v <= hi)
                      => ItemOfKind(f, "colorbar").data[1] = <<lo, hi>>)

HeatmapOk ==
    last.fn = "correlation_heatmap" /\ last.mode = "heatmap" /\ last.result = "ok"

\* Entry [i][j] of the matrix the last call's heatmap was drawn from.
Entry(i, j) ==
    LET row == ItemOfKind(OwnShown(1), "heatmap").data[(i - 1) * Len(last.cols) + j]
    IN  <<row[3], row[4], row[5]>>

\* Equality of matrix entries as floats have it: NaN equals nothing.
FloatEq(a, b) == a # NaN /\ b # NaN /\ a = b

\* A column that takes at least two values.
Varies(c) == \E i, j \in 1..NRows : Cell(c, i) # Cell(c, j)

(* C8, as stated: the matrix correlation_heatmap draws in heatmap mode is
   k x k, symmetric and has 1 on the whole diagonal. *)
C8_SymmetricUnitDiagonal ==
    HeatmapOk =>
        LET k == Len(last.cols)
        IN  /\ Len(ItemOfKind(OwnShown(1), "heatmap").data) = k * k
            /\ \A i, j \in 1..k : FloatEq(Entry(i, j), Entry(j, i))
            /\ \A i \in 1..k : FloatEq(Entry(i, i), Unit)

(* C8, amended: the matrix is k x k; entry [i][j] is NaN exactly when
   column i or column j is constant, and then entry [j][i] is NaN too;
   all other entries are symmetric, and the diagonal entry of every
   column that varies is 1. *)
C8_SymmetricUnitDiagonalWhereDefined ==
    HeatmapOk =>
        LET k == Len(last.cols)
        IN  /\ Len(ItemOfKind(OwnShown(1), "heatmap").data) = k * k
            /\ \A i, j \in 1..k :
                  /\ Entry(i, j) = Entry(j, i)
                  /\ Entry(i, j) = NaN <=> ~(Varies(last.cols[i]) /\ Varies(last.cols[j]))
            /\ \A i \in 1..k : Varies(last.cols[i]) => Entry(i, i) = Unit

C8_Witness ==
    /\ HeatmapOk /\ last.cols = <<"GHI", "DHI">>
    /\ Entry(1, 1) = Unit
    /\ Entry(2, 2) = NaN /\ Entry(1, 2) = NaN /\ Entry(2, 1) = NaN

(* C9: a call's artifact depends on its inputs alone.  Whatever calls came
   before, the call ends as it does on a fresh backend and its own figures
   (shown and left open) hold what they hold there, it leaves the figures
   of earlier calls as they were, and a call repeated with the same inputs
   gives the artifact of the first on figures of its own. *)
C9_SameInputsSameArtifact ==
    Called =>
        LET fresh == Invoke(last, Backend(<<>>), ncalls)
            mine  == Artifact(last.result, last.shown, figs, ncalls)
        IN  /\ mine = Artifact(fresh.result, fresh.b.shown, fresh.b.figs, ncalls)
            /\ last.ncreated = fresh.b.ncreated
            /\ Foreign(last.shown \o figs, ncalls) = last.before
            /\ last.again # <<>> => mine = last.again[1]

C9_Witness ==
    /\ Called /\ last.again # <<>>
    /\ last.result = "ok" /\ last.ncreated >= 1
    /\ Artifact(last.result, last.shown, figs, ncalls) = last.again[1]

(* C10: with both a missing column and an unrecognized mode,
   temperature_analysis fails on the missing column and
   correlation_heatmap on the mode; neither has created a figure. *)
C10_ValidationOrder ==
    (Called /\ ~ModeOk /\ ~ColumnsOk) =>
        /\ last.fn = "temperature_analysis" => last.result = "MissingColumnError"
        /\ last.fn = "correlation_heatmap" => last.result = "InvalidModeError"
        /\ DrewNothing

C10_Witness ==
    /\ last.fn = "temperature_analysis" /\ ~ModeOk /\ ~ColumnsOk
    /\ last.result = "MissingColumnError" /\ last.ncreated = 0

====
